---- MODULE Spec2Model ----
(***************************************************************************)
(* Model of src/components/orbit/OrbitSimulation.tsx: the OrbitSimulation  *)
(* component (selector, speed, size, trail switch, pause, reset), the      *)
(* Satellite component (position, trail buffer, reset effect, tick effect, *)
(* frame callback), the Moon component and the pure functions              *)
(* calculateNewPosition and calculateOrbitPeriod.                          *)
(*                                                                         *)
(* Numbers.  Date.now() is in milliseconds.  simulationSpeed is kept in    *)
(* tenths (the slider's step is 0.1), so 1.0x is 10.  Angles are in        *)
(* milliradians and coordinates in thousandths of a scene unit; Math.sin   *)
(* and Math.cos are evaluated in that fixed point.  A trail opacity is the *)
(* exact fraction num/den.                                                 *)
(*                                                                         *)
(* React.  A handler's state updates are rendered in one commit.  The      *)
(* passive effects (useEffect) of a commit run after it: `effects` is      *)
(* "sync" when they run before anything else can (a click), "deferred"     *)
(* when timers and frames may run first (a slider drag, an animation-frame *)
(* callback), and "idle" when none is pending.  React runs pending effects *)
(* before it renders any further update.                                   *)
(*                                                                         *)
(* Timers.  One step of the clock is ClockStep ms; every active 16 ms      *)
(* interval fires once per clock value (`ticked`, `moonTicked`) before the *)
(* clock moves on.                                                         *)
(***************************************************************************)
EXTENDS Integers, Sequences, FiniteSets, TLC

\* ---------------------------------------------------------------- bounds
\* Milliseconds between two observed readings of Date.now().
ClockStep == 40000
\* Last reading of Date.now() the model explores (the clock starts at 0).
MaxNow == 80000

\* Speeds (tenths) the speed slider is moved to.
SpeedsTried == {10, 20}
\* Sizes the size slider is moved to.
SizesTried == {20, 25}
\* Tabs that are clicked.
TabsTried == {"lagrange", "moon"}
\* Orbit buttons that are clicked.
ButtonsTried == {"l1", "l2", "llo_circular"}

\* ------------------------------------------------------------- constants
\* BASE_ORBITAL_SPEED = 0.0001 rad per ms, here in microradians per ms.
BASE_ORBITAL_SPEED == 100

\* orbitOptions: the ids of each category, in the order of the buttons.
orbitOptions ==
  [ lagrange |-> << "l1", "l2", "l3", "l4", "l5", "l1_halo", "l2_halo",
                    "l3_halo", "l4_lissajous", "l5_lissajous" >>,
    earth    |-> << "geo", "gso_equator", "gso_mid", "qzo_8", "qzo_asym",
                    "molniya" >>,
    moon     |-> << "llo_circular", "llo_elliptical", "llo_polar", "frozen",
                    "transfer", "distant" >> ]

OrbitCategory == {"lagrange", "earth", "moon"}

CatalogIds(category) ==
  { orbitOptions[category][i] : i \in 1..Len(orbitOptions[category]) }

\* ------------------------------------------------------------ arithmetic
\* Math.sin on [0, pi/2]: x in milliradians, the result in thousandths.
SinSeries(x) ==
  LET x2 == (x * x) \div 1000
      t3 == (x * x2) \div 6000
      t5 == (t3 * x2) \div 20000
      t7 == (t5 * x2) \div 42000
  IN  x - t3 + t5 - t7

\* Math.sin: a in milliradians (any sign), the result in thousandths.
Sin(a) ==
  LET r == a % 6283
  IN  IF r <= 1571 THEN SinSeries(r)
      ELSE IF r <= 3142 THEN SinSeries(3142 - r)
      ELSE IF r <= 4712 THEN 0 - SinSeries(r - 3142)
      ELSE 0 - SinSeries(6283 - r)

\* Math.cos.
Cos(a) == Sin(a + 1571)

\* c * v for a coefficient c given in tenths.
Tenths(c, v) == (c * v) \div 10

\* a * b for two numbers in thousandths.
Mul(a, b) == (a * b) \div 1000

\* angle = currentTime * BASE_ORBITAL_SPEED * simulationSpeed, milliradians.
Angle(currentTime, simulationSpeed) ==
  (currentTime * BASE_ORBITAL_SPEED * simulationSpeed) \div 10000

\* Math.PI / 3 in milliradians.
PiThird == 1047

\* ---------------------------------------------------- calculateNewPosition
\* The Moon's position for an angle: [10 cos, 0, 10 sin].
MoonAt(angle) == << 10 * Cos(angle), 0, 10 * Sin(angle) >>

\* The default of switch(orbit) in case "lagrange".
lagrangeDefault == << 5000, 0, 0 >>

\* The default of switch(orbit) in case "earth".
earthDefault == << 4000, 0, 0 >>

\* The default of case "moon" as one fixed point beside the Moon's start.
moonDefaultFixed(moonX, moonZ) == << 11500, 0, 0 >>

\* The default of switch(orbit) in case "moon".
moonDefault(moonX, moonZ) == << moonX + 1500, 0, moonZ >>

\* The default of switch(type).
typeDefault == << 5000, 0, 0 >>

\* switch(orbit) of case "lagrange".
lagrangePosition(orbit, angle) ==
  LET moonX == 10 * Cos(angle)
      moonZ == 10 * Sin(angle)
  IN  CASE orbit = "l1" -> << Tenths(5, moonX), 0, Tenths(5, moonZ) >>
        [] orbit = "l2" -> << Tenths(12, moonX), 0, Tenths(12, moonZ) >>
        [] orbit = "l3" -> << (0 - 10) * Cos(angle), 0, (0 - 10) * Sin(angle) >>
        [] orbit = "l4" -> << 10 * Cos(angle + PiThird), 0,
                              10 * Sin(angle + PiThird) >>
        [] orbit = "l5" -> << 10 * Cos(angle - PiThird), 0,
                              10 * Sin(angle - PiThird) >>
        [] orbit = "l1_halo" ->
             << Tenths(5, moonX) + Tenths(5, Sin(angle * 2)),
                Tenths(8, Sin(angle * 3)),
                Tenths(5, moonZ) + Tenths(5, Cos(angle * 2)) >>
        [] orbit = "l2_halo" ->
             << Tenths(12, moonX) + Tenths(5, Sin(angle * 2)),
                Tenths(8, Sin(angle * 3)),
                Tenths(12, moonZ) + Tenths(5, Cos(angle * 2)) >>
        [] orbit = "l3_halo" ->
             LET l3FastAngle == angle * 3
             IN  << (0 - 10) * Cos(angle) + Tenths(15, Sin(l3FastAngle)),
                    Sin(Tenths(12, l3FastAngle)),
                    (0 - 10) * Sin(angle) + Tenths(15, Cos(l3FastAngle)) >>
        [] orbit = "l4_lissajous" ->
             LET l4FastAngle == angle * 2
             IN  << 10 * Cos(angle + PiThird)
                      + Tenths(12, Sin(Tenths(7, l4FastAngle))),
                    Tenths(8, Sin(Tenths(11, l4FastAngle))),
                    10 * Sin(angle + PiThird)
                      + Tenths(12, Sin(Tenths(9, l4FastAngle))) >>
        [] orbit = "l5_lissajous" ->
             LET l5FastAngle == angle * 2
             IN  << 10 * Cos(angle - PiThird)
                      + Tenths(12, Sin(Tenths(8, l5FastAngle))),
                    Tenths(8, Sin(Tenths(12, l5FastAngle))),
                    10 * Sin(angle - PiThird)
                      + Tenths(12, Sin(l5FastAngle)) >>
        [] OTHER -> lagrangeDefault

\* switch(orbit) of case "earth": only geo and gso_equator have a branch.
earthPosition(orbit, angle) ==
  CASE orbit = "geo" ->
         << 4 * Cos(angle \div 10), 0, 4 * Sin(angle \div 10) >>
    [] orbit = "gso_equator" ->
         << 4 * Cos(angle \div 10), Tenths(2, Sin(angle \div 20)),
            4 * Sin(angle \div 10) >>
    [] OTHER -> earthDefault

\* switch(orbit) of case "moon".
moonPosition(orbit, angle) ==
  LET moonX == 10 * Cos(angle)
      moonZ == 10 * Sin(angle)
  IN  CASE orbit = "llo_circular" ->
             << moonX + Tenths(15, Cos(angle * 5)), 0,
                moonZ + Tenths(15, Sin(angle * 5)) >>
        [] orbit = "llo_elliptical" ->
             LET moonOrbitAngle == angle * 5
                 moonRadius ==
                   Mul(1800, 1000 - Mul(300, Cos(moonOrbitAngle)))
             IN  << moonX + Mul(moonRadius, Cos(moonOrbitAngle)), 0,
                    moonZ + Mul(moonRadius, Sin(moonOrbitAngle)) >>
        [] orbit = "llo_polar" ->
             << moonX + Tenths(15, Cos(angle * 5)),
                Tenths(15, Sin(angle * 5)), moonZ >>
        [] orbit = "frozen" ->
             << moonX + 2 * Cos(angle), Tenths(5, Sin(angle \div 2)),
                moonZ + 2 * Sin(angle) >>
        [] orbit = "transfer" ->
             LET transferPhase == (Sin(angle \div 20) + 1000) \div 2
             IN  << Mul(moonX, transferPhase),
                    Mul(Sin(angle \div 5), 1000 - transferPhase) * 2,
                    Mul(moonZ, transferPhase) >>
        [] orbit = "distant" ->
             << moonX + 3 * Cos(Tenths(3, angle)),
                2 * Sin(Tenths(3, angle)),
                moonZ + 3 * Sin(Tenths(3, angle)) >>
        [] OTHER -> moonDefault(moonX, moonZ)

calculateNewPosition(type, orbit, currentTime, simulationSpeed) ==
  LET angle == Angle(currentTime, simulationSpeed)
  IN  CASE type = "lagrange" -> lagrangePosition(orbit, angle)
        [] type = "earth" -> earthPosition(orbit, angle)
        [] type = "moon" -> moonPosition(orbit, angle)
        [] OTHER -> typeDefault

\* The ids that have a branch of their own in calculateNewPosition.
PositionCases(type) ==
  CASE type = "lagrange" -> CatalogIds("lagrange")
    [] type = "earth" -> {"geo", "gso_equator"}
    [] type = "moon" -> CatalogIds("moon")
    [] OTHER -> {}

\* ----------------------------------------------------- calculateOrbitPeriod
\* The period in seconds.
calculateOrbitPeriod(type, orbit) ==
  CASE type = "lagrange" -> 60
    [] type = "earth" ->
         ( CASE orbit \in {"geo", "gso_equator", "gso_mid"} -> 40
             [] orbit \in {"qzo_8", "qzo_asym"} -> 30
             [] orbit = "molniya" -> 50
             [] OTHER -> 40 )
    [] type = "moon" ->
         ( CASE orbit \in {"llo_circular", "llo_elliptical", "llo_polar"} -> 20
             [] orbit = "frozen" -> 30
             [] orbit = "transfer" -> 100
             [] orbit = "distant" -> 40
             [] OTHER -> 30 )
    [] OTHER -> 40

\* ------------------------------------------------------------------ state
VARIABLES
  now,              \* Date.now()
  orbitType, specificOrbit, simulationSpeed, satelliteSize, showTrail,
  activeTab, isPaused,                     \* OrbitSimulation's useState
  rafQueue,         \* the last reselect callback given to requestAnimationFrame
  effects,          \* passive effects of the last commit: idle, sync, deferred
  position, trail,  \* Satellite's useState
  prevOrbitRef, orbitPeriodRef,            \* Satellite's useRef
  interval,         \* Satellite's setInterval and what its callback closes over
  ticked,           \* the Satellite interval has fired at this clock value
  posAt,            \* arguments of the call that computed `position`
  ribbon,           \* geometry of the trail mesh, as the frame callback built it
  moonPos,          \* Moon's useState position
  moonInterval,     \* simulationSpeed the Moon's interval closes over
  moonTicked,       \* the Moon interval has fired at this clock value
  moonAt,           \* time and speed that computed `moonPos`
  frozenAt,         \* << Date.now() at the pause >> until the next tick
  probe,            \* a call of calculateNewPosition and its result
  mesh              \* a call of generateTrailGeometry and its result

vars ==
  << now, orbitType, specificOrbit, simulationSpeed, satelliteSize, showTrail,
     activeTab, isPaused, rafQueue, effects, position, trail, prevOrbitRef,
     orbitPeriodRef, interval, ticked, posAt, ribbon, moonPos, moonInterval,
     moonTicked, moonAt, frozenAt, probe, mesh >>

appVars ==
  << orbitType, specificOrbit, simulationSpeed, satelliteSize, showTrail,
     activeTab, isPaused, rafQueue >>

satVars ==
  << position, trail, prevOrbitRef, orbitPeriodRef, interval, ticked, posAt,
     ribbon >>

moonVars == << moonPos, moonInterval, moonTicked, moonAt >>

NoCall == [valid |-> FALSE, type |-> "none", specific |-> "", time |-> 0,
           speed |-> 0]
NoInterval == [active |-> FALSE, type |-> "none", specific |-> "",
               speed |-> 0, showTrail |-> FALSE]
NoRibbon == [built |-> FALSE, color |-> "", by |-> {},
             props |-> [type |-> "none", specific |-> "", speed |-> 0]]
NoMoonCall == [valid |-> FALSE, time |-> 0, speed |-> 0]
NoProbe == [done |-> FALSE, type |-> "none", orbit |-> "", currentTime |-> 0,
            simulationSpeed |-> 0, result |-> << 0, 0, 0 >>,
            branch |-> "", period |-> 0, periodBranch |-> ""]

NoMesh == [built |-> FALSE, points |-> << >>, lineWidths |-> << >>,
           positions |-> << >>, vertexColors |-> << >>, index |-> << >>,
           written |-> {}]

\* ------------------------------------------------------------------- Init
\* The state after the first mount and its effects: lagrange / l1 at 1.0x,
\* both intervals set, nothing computed yet.
InitSim ==
  /\ now = 0
  /\ orbitType = "lagrange"
  /\ specificOrbit = "l1"
  /\ simulationSpeed = 10
  /\ satelliteSize = 20
  /\ showTrail = TRUE
  /\ activeTab = "lagrange"
  /\ isPaused = FALSE
  /\ rafQueue = << >>
  /\ effects = "idle"
  /\ position = << 5000, 0, 0 >>
  /\ trail = << >>
  /\ prevOrbitRef = [type |-> "lagrange", specific |-> "l1", speed |-> 10]
  /\ orbitPeriodRef = calculateOrbitPeriod("lagrange", "l1")
  /\ interval = [active |-> TRUE, type |-> "lagrange", specific |-> "l1",
                 speed |-> 10, showTrail |-> TRUE]
  /\ ticked = FALSE
  /\ posAt = NoCall
  /\ ribbon = NoRibbon
  /\ moonPos = << 10000, 0, 0 >>
  /\ moonInterval = 10
  /\ moonTicked = FALSE
  /\ moonAt = NoMoonCall
  /\ frozenAt = << >>
  /\ probe = NoProbe

\* No call of generateTrailGeometry has been made.
Init == InitSim /\ mesh = NoMesh

\* ----------------------------------------------------------- Trail buffer
\* The opacity the tick gives a retained sample:
\* Math.max(0, 1.0 - ((currentTime - timestamp) / 1000 - period) / period),
\* which is (2000 period - age) / (1000 period), as an exact fraction.
Opacity(currentTime, timestamp, period) ==
  LET age == currentTime - timestamp
      raw == 2000 * period - age
  IN  [num |-> IF raw > 0 THEN raw ELSE 0, den |-> 1000 * period]

\* The filter with the age divided as if it were in microseconds.
TrailKeepsUnscaled(currentTime, timestamp, period) ==
  (currentTime - timestamp) \div 1000000 <= period * 2

\* The filter of the tick: (currentTime - timestamp) / 1000 <= period * 2.
TrailKeeps(currentTime, timestamp, period) ==
  currentTime - timestamp <= period * 2 * 1000

\* The updater the tick hands to setTrail: recompute every opacity, filter,
\* append the new point.  `by` records the settings the callback closed over.
TrailUpdate(prev, currentTime, period, newPosition, by) ==
  LET newPoint == [position |-> newPosition, timestamp |-> currentTime,
                   opacity |-> [num |-> 1, den |-> 1], by |-> by]
      updatedTrail ==
        [i \in 1..Len(prev) |->
           [prev[i] EXCEPT
              !.opacity = Opacity(currentTime, prev[i].timestamp, period)]]
      keeps(point) == TrailKeeps(currentTime, point.timestamp, period)
      filteredTrail == SelectSeq(updatedTrail, keeps)
  IN  Append(filteredTrail, newPoint)

\* --------------------------------------------------------------- Satellite
CurrentProps ==
  [type |-> orbitType, specific |-> specificOrbit, speed |-> simulationSpeed]

NoRef == [type |-> "none", specific |-> "", speed |-> 0]

\* switch(orbitType) for satelliteColor.
satelliteColor(type) ==
  CASE type = "lagrange" -> "#9C27B0"
    [] type = "earth" -> "#2196F3"
    [] type = "moon" -> "#4CAF50"
    [] OTHER -> "#FFFFFF"

\* The trail mesh is rendered: showTrail && trail.length > 1.
MeshShown(show, tr) == show /\ Len(tr) > 1

\* The reset effect's condition: a prop differs from prevOrbitRef.
ResetEffectFires == prevOrbitRef # CurrentProps

\* The tick effect without its `if (paused) return`.
TickEffectRunsAlways == TRUE

\* The tick effect goes past `if (paused) return`.
TickEffectRuns == ~isPaused

\* What a commit does to the Satellite: it is unmounted when the new type is
\* 'none' (its state is lost, its interval cleared), mounted afresh when the
\* old type was 'none', and otherwise rendered again with its state kept.
SatCommit(newType, newSpecific, newSpeed, newShow) ==
  IF newType = "none" \/ orbitType = "none"
  THEN /\ position' = << 5000, 0, 0 >>
       /\ trail' = << >>
       /\ prevOrbitRef' =
            IF newType = "none" THEN NoRef
            ELSE [type |-> newType, specific |-> newSpecific,
                  speed |-> newSpeed]
       /\ orbitPeriodRef' = 0
       /\ interval' = NoInterval
       /\ posAt' = NoCall
       /\ ribbon' = NoRibbon
       /\ UNCHANGED ticked
  ELSE /\ ribbon' = IF MeshShown(newShow, trail) THEN ribbon ELSE NoRibbon
       /\ UNCHANGED << position, trail, prevOrbitRef, orbitPeriodRef,
                       interval, posAt, ticked >>

\* The passive effects of the last commit, `tr` being the trail they find:
\* the reset effect (setTrail([]) when a prop changed), the tick effect
\* (cleanup, then period and a new interval unless paused) and the Moon's
\* effect (a new interval closing over the speed).
EffectsRun(tr) ==
  /\ effects' = "idle"
  /\ moonInterval' = simulationSpeed
  /\ IF orbitType = "none"
     THEN /\ trail' = tr
          /\ UNCHANGED << prevOrbitRef, orbitPeriodRef, interval, ribbon >>
     ELSE /\ trail' = IF ResetEffectFires THEN << >> ELSE tr
          /\ prevOrbitRef' = CurrentProps
          /\ IF TickEffectRuns
             THEN /\ orbitPeriodRef' =
                       calculateOrbitPeriod(orbitType, specificOrbit)
                  /\ interval' =
                       [active |-> TRUE, type |-> orbitType,
                        specific |-> specificOrbit,
                        speed |-> simulationSpeed, showTrail |-> showTrail]
             ELSE /\ orbitPeriodRef' = orbitPeriodRef
                  /\ interval' = NoInterval
          /\ ribbon' = IF MeshShown(showTrail, trail') THEN ribbon
                       ELSE NoRibbon

FlushEffects ==
  /\ effects # "idle"
  /\ EffectsRun(trail)
  /\ UNCHANGED << now, appVars, position, ticked, posAt, moonPos, moonTicked,
                  moonAt, frozenAt, probe, mesh >>

\* The callback of the Satellite's setInterval.  When effects are still
\* pending the callback is the old one; React runs them before it renders
\* the callback's updates, so the reset effect's setTrail([]) comes last.
Tick ==
  /\ effects \in {"idle", "deferred"}
  /\ interval.active
  /\ ~ticked
  /\ LET currentTime == now
         newPosition ==
           calculateNewPosition(interval.type, interval.specific,
                                currentTime, interval.speed)
         by == [type |-> interval.type, specific |-> interval.specific,
                speed |-> interval.speed]
         next == IF interval.showTrail
                 THEN TrailUpdate(trail, currentTime, orbitPeriodRef,
                                  newPosition, by)
                 ELSE << >>
     IN  /\ position' = newPosition
         /\ posAt' = [valid |-> TRUE, type |-> interval.type,
                      specific |-> interval.specific, time |-> currentTime,
                      speed |-> interval.speed]
         /\ IF effects = "deferred"
            THEN EffectsRun(next)
            ELSE /\ trail' = next
                 /\ ribbon' = IF MeshShown(showTrail, next) THEN ribbon
                              ELSE NoRibbon
                 /\ UNCHANGED << prevOrbitRef, orbitPeriodRef, interval,
                                 moonInterval, effects >>
  /\ ticked' = TRUE
  /\ frozenAt' = << >>
  /\ UNCHANGED << now, appVars, moonPos, moonTicked, moonAt, probe, mesh >>

\* useFrame: rebuild the trail mesh's geometry from the rendered trail.
Frame ==
  /\ effects # "sync"
  /\ orbitType # "none"
  /\ MeshShown(showTrail, trail)
  /\ ribbon' = [built |-> TRUE, color |-> satelliteColor(orbitType),
                by |-> { trail[i].by : i \in 1..Len(trail) },
                props |-> CurrentProps]
  /\ UNCHANGED << now, appVars, effects, position, trail, prevOrbitRef,
                  orbitPeriodRef, interval, ticked, posAt, moonVars,
                  frozenAt, probe, mesh >>

\* -------------------------------------------------------------------- Moon
\* The callback of the Moon's setInterval.
MoonTick ==
  /\ effects \in {"idle", "deferred"}
  /\ ~moonTicked
  /\ LET currentTime == now
     IN  /\ moonPos' = MoonAt(Angle(currentTime, moonInterval))
         /\ moonAt' = [valid |-> TRUE, time |-> currentTime,
                       speed |-> moonInterval]
  /\ moonTicked' = TRUE
  /\ IF effects = "deferred"
     THEN EffectsRun(trail)
     ELSE UNCHANGED << trail, prevOrbitRef, orbitPeriodRef, interval, ribbon,
                       moonInterval, effects >>
  /\ UNCHANGED << now, appVars, position, ticked, posAt, frozenAt, probe, mesh >>

\* ------------------------------------------------------------------- clock
ClockAdvance ==
  /\ effects = "idle"
  /\ now + ClockStep <= MaxNow
  /\ moonTicked
  /\ interval.active => ticked
  /\ now' = now + ClockStep
  /\ ticked' = FALSE
  /\ moonTicked' = FALSE
  /\ UNCHANGED << appVars, effects, position, trail, prevOrbitRef,
                  orbitPeriodRef, interval, posAt, ribbon, moonPos,
                  moonInterval, moonAt, frozenAt, probe, mesh >>

\* --------------------------------------------------------- OrbitSimulation
\* Tabs onValueChange: the tab, the type, and the category's first orbit.
handleTabChange(value) ==
  /\ effects = "idle"
  /\ value # activeTab
  /\ activeTab' = value
  /\ orbitType' = value
  /\ specificOrbit' = orbitOptions[value][1]
  /\ SatCommit(value, orbitOptions[value][1], simulationSpeed, showTrail)
  /\ effects' = "sync"
  /\ UNCHANGED << now, simulationSpeed, satelliteSize, showTrail, isPaused,
                  rafQueue, moonVars, frozenAt, probe, mesh >>

\* A button of the active tab.
handleOrbitSelect(orbitId) ==
  /\ effects = "idle"
  /\ orbitId \in CatalogIds(activeTab)
  /\ orbitId # specificOrbit
  /\ specificOrbit' = orbitId
  /\ SatCommit(orbitType, orbitId, simulationSpeed, showTrail)
  /\ effects' = "sync"
  /\ UNCHANGED << now, orbitType, simulationSpeed, satelliteSize, showTrail,
                  activeTab, isPaused, rafQueue, moonVars, frozenAt, probe, mesh >>

\* The reset button: defaults, type 'none', and a callback for the next
\* animation frame that closes over the type and orbit it read.  The frame
\* runs the waiting callbacks in order and every one sets both states, so the
\* last one decides the commit: rafQueue keeps that one.
handleReset ==
  /\ effects = "idle"
  /\ simulationSpeed' = 10
  /\ satelliteSize' = 20
  /\ showTrail' = TRUE
  /\ isPaused' = FALSE
  /\ orbitType' = "none"
  /\ rafQueue' = << [type |-> orbitType, specific |-> specificOrbit] >>
  /\ SatCommit("none", specificOrbit, 10, TRUE)
  /\ effects' = "sync"
  /\ UNCHANGED << now, specificOrbit, activeTab, moonVars, frozenAt, probe, mesh >>

\* The animation frame runs the waiting callbacks; one commit renders the
\* type and the orbit the last of them closed over.
RafCallbacks ==
  /\ effects = "idle"
  /\ rafQueue # << >>
  /\ LET last == rafQueue[Len(rafQueue)]
     IN  /\ orbitType' = last.type
         /\ specificOrbit' = last.specific
         /\ SatCommit(last.type, last.specific, simulationSpeed, showTrail)
  /\ rafQueue' = << >>
  /\ effects' = "deferred"
  /\ UNCHANGED << now, simulationSpeed, satelliteSize, showTrail, activeTab,
                  isPaused, moonVars, frozenAt, probe, mesh >>

togglePause ==
  /\ effects = "idle"
  /\ isPaused' = ~isPaused
  /\ frozenAt' = IF ~isPaused /\ frozenAt = << >> THEN << now >> ELSE frozenAt
  /\ SatCommit(orbitType, specificOrbit, simulationSpeed, showTrail)
  /\ effects' = "sync"
  /\ UNCHANGED << now, orbitType, specificOrbit, simulationSpeed,
                  satelliteSize, showTrail, activeTab, rafQueue, moonVars,
                  probe, mesh >>

\* The speed slider (disabled while paused).
handleSpeedChange(newSpeed) ==
  /\ effects = "idle"
  /\ ~isPaused
  /\ newSpeed # simulationSpeed
  /\ simulationSpeed' = newSpeed
  /\ SatCommit(orbitType, specificOrbit, newSpeed, showTrail)
  /\ effects' = "deferred"
  /\ UNCHANGED << now, orbitType, specificOrbit, satelliteSize, showTrail,
                  activeTab, isPaused, rafQueue, moonVars, frozenAt, probe, mesh >>

\* The size slider: no effect depends on the size.
setSatelliteSize(size) ==
  /\ effects = "idle"
  /\ size # satelliteSize
  /\ satelliteSize' = size
  /\ UNCHANGED << now, orbitType, specificOrbit, simulationSpeed, showTrail,
                  activeTab, isPaused, rafQueue, effects, satVars, moonVars,
                  frozenAt, probe, mesh >>

\* The trail switch.
setShowTrail(checked) ==
  /\ effects = "idle"
  /\ checked # showTrail
  /\ showTrail' = checked
  /\ SatCommit(orbitType, specificOrbit, simulationSpeed, checked)
  /\ effects' = "sync"
  /\ UNCHANGED << now, orbitType, specificOrbit, simulationSpeed,
                  satelliteSize, activeTab, isPaused, rafQueue, moonVars,
                  frozenAt, probe, mesh >>

\* ------------------------------------------------------------------- Next
Next ==
  \/ ClockAdvance
  \/ Tick
  \/ MoonTick
  \/ Frame
  \/ FlushEffects
  \/ RafCallbacks
  \/ handleReset
  \/ togglePause
  \/ \E value \in TabsTried : handleTabChange(value)
  \/ \E orbitId \in ButtonsTried : handleOrbitSelect(orbitId)
  \/ \E newSpeed \in SpeedsTried : handleSpeedChange(newSpeed)
  \/ \E size \in SizesTried : setSatelliteSize(size)
  \/ \E checked \in BOOLEAN : setShowTrail(checked)

Spec == Init /\ [][Next]_vars

\* ---------------------------------------------------------------- probing
\* The ids that have a case label of their own in calculateOrbitPeriod;
\* "lagrange" returns at the case of the type, before any switch(orbit).
PeriodCases(type) ==
  CASE type = "earth" ->
         {"geo", "gso_equator", "gso_mid", "qzo_8", "qzo_asym", "molniya"}
    [] type = "moon" ->
         {"llo_circular", "llo_elliptical", "llo_polar", "frozen", "transfer",
          "distant"}
    [] OTHER -> {}

\* The branch of calculateNewPosition that computes the result: the case of
\* the orbit, or the default of its switch.
PositionBranch(type, orbit) ==
  IF orbit \in PositionCases(type) THEN orbit ELSE "default"

\* The branch of calculateOrbitPeriod that returns.
PeriodBranch(type, orbit) ==
  CASE type = "lagrange" -> "lagrange"
    [] orbit \in PeriodCases(type) -> orbit
    [] OTHER -> "default"

ProbeTypes == {"lagrange", "earth", "moon", "none"}
ProbeOrbits ==
  CatalogIds("lagrange") \cup CatalogIds("earth") \cup CatalogIds("moon")
    \cup {"nonexistent"}
ProbeTimes == { t \in 0..MaxNow : t % ClockStep = 0 }

Evaluate ==
  /\ \E type \in ProbeTypes, orbit \in ProbeOrbits, t \in ProbeTimes,
        s \in SpeedsTried :
       probe' = [done |-> TRUE, type |-> type, orbit |-> orbit,
                 currentTime |-> t, simulationSpeed |-> s,
                 result |-> calculateNewPosition(type, orbit, t, s),
                 branch |-> PositionBranch(type, orbit),
                 period |-> calculateOrbitPeriod(type, orbit),
                 periodBranch |-> PeriodBranch(type, orbit)]
  /\ UNCHANGED << now, appVars, effects, satVars, moonVars, frozenAt, mesh >>

\* The specification of calculateNewPosition alone: every call of it.
InitPos == Init
NextPos == Evaluate
SpecPos == InitPos /\ [][NextPos]_vars

\* ---------------------------------------------------- generateTrailGeometry
\* Bound and inputs of the calls tried: the longest trail, the sample
\* positions (a collinear triple, and one point straight above another) and
\* the opacities.
MaxPoints == 3
PointsTried ==
  { << 0, 0, 0 >>, << 3000, 0, 4000 >>, << 6000, 0, 8000 >>,
    << 3000, 1000, 4000 >> }
WidthsTried == {1000, 500}

\* A JavaScript number: a finite value in thousandths, or NaN / Infinity.
Num(n) == [finite |-> TRUE, val |-> n]
NotFinite == [finite |-> FALSE, val |-> 0]

FAdd(a, b) ==
  IF a.finite /\ b.finite THEN Num(a.val + b.val) ELSE NotFinite
FSub(a, b) ==
  IF a.finite /\ b.finite THEN Num(a.val - b.val) ELSE NotFinite
FNeg(a) == IF a.finite THEN Num(0 - a.val) ELSE NotFinite
FMul(a, b) ==
  IF a.finite /\ b.finite THEN Num((a.val * b.val) \div 1000) ELSE NotFinite
\* 0 / 0 is NaN and x / 0 is an infinity.
FDiv(a, b) ==
  IF a.finite /\ b.finite /\ b.val # 0
    THEN Num((a.val * 1000) \div b.val)
    ELSE NotFinite

\* Math.sqrt on whole numbers: the largest r in lo..hi with r * r <= n.
RECURSIVE SqrtBetween(_, _, _)
SqrtBetween(n, lo, hi) ==
  IF lo >= hi THEN lo
  ELSE LET mid == (lo + hi + 1) \div 2
       IN  IF mid * mid <= n THEN SqrtBetween(n, mid, hi)
           ELSE SqrtBetween(n, lo, mid - 1)

\* Vector3.length(): Math.sqrt(x * x + y * y + z * z).
Length(v) ==
  IF v[1].finite /\ v[2].finite /\ v[3].finite
    THEN LET sq == v[1].val * v[1].val + v[2].val * v[2].val
                     + v[3].val * v[3].val
         IN  Num(SqrtBetween(sq, 0, 40000))
    ELSE NotFinite

\* length || 1: a length of 0 (or NaN) is replaced by 1.
OrOne(len) == IF ~len.finite \/ len.val = 0 THEN Num(1000) ELSE len

\* A normalisation written by hand as v / |v|, with no guard for |v| = 0.
normalizeUnguarded(v) ==
  LET len == Length(v)
  IN  << FDiv(v[1], len), FDiv(v[2], len), FDiv(v[3], len) >>

\* Vector3.normalize() of three.js, as called on direction and on
\* perpendicular: divideScalar(length() || 1).
normalize(v) ==
  LET len == OrOne(Length(v))
  IN  << FDiv(v[1], len), FDiv(v[2], len), FDiv(v[3], len) >>

\* direction of segment i (from 0): points[i + 1] - points[i], normalised.
direction(points, i) ==
  LET current == points[i + 1]
      next == points[i + 2]
  IN  normalize(<< Num(next[1] - current[1]), Num(next[2] - current[2]),
                   Num(next[3] - current[3]) >>)

\* perpendicular of segment i: (-direction.z, 0, direction.x), normalised.
perpendicular(points, i) ==
  LET d == direction(points, i)
  IN  normalize(<< FNeg(d[3]), Num(0), d[1] >>)

\* The vertex loop: for (let i = 0; i < points.length - 1; i++).
VertexLoop(n) == 0..(n - 2)

\* The index loop runs while i < points.length.
IndexLoopAll(n) == 0..(n - 1)

\* The index loop: for (let i = 0; i < points.length - 1; i++).
IndexLoop(n) == 0..(n - 2)

\* What pass i of the vertex loop writes to positions[i * 6 + j].
PositionWritten(points, lineWidths, i, j) ==
  LET current == points[i + 1]
      perp == perpendicular(points, i)
      width == Num(lineWidths[i + 1] \div 10)
  IN  CASE j = 0 -> FAdd(Num(current[1]), FMul(perp[1], width))
        [] j = 1 -> Num(current[2])
        [] j = 2 -> FAdd(Num(current[3]), FMul(perp[3], width))
        [] j = 3 -> FSub(Num(current[1]), FMul(perp[1], width))
        [] j = 4 -> Num(current[2])
        [] OTHER -> FSub(Num(current[3]), FMul(perp[3], width))

\* What pass i of the vertex loop writes to vertexColors[i * 6 + j]:
\* colors[i].r, .g, .b, twice.
ColorWritten(colors, i, j) == Num(colors[i + 1][(j % 3) + 1])

\* The two push calls of pass i of the index loop.
IndexPushed(i) ==
  LET base == i * 2
  IN  << base, base + 1, base + 2, base + 2, base + 1, base + 3 >>

RECURSIVE IndexFrom(_, _)
IndexFrom(i, n) ==
  IF i \notin IndexLoop(n) THEN << >>
  ELSE IndexPushed(i) \o IndexFrom(i + 1, n)

\* generateTrailGeometry: the position and color arrays (new
\* Float32Array(points.length * 6), zero until written), the index, and the
\* slots of the position array that the vertex loop wrote.
generateTrailGeometry(points, colors, lineWidths) ==
  LET n == Len(points)
      slots == 0..(n * 6 - 1)
  IN  [ positions |->
          [ k \in slots |->
              IF k \div 6 \in VertexLoop(n)
                THEN PositionWritten(points, lineWidths, k \div 6, k % 6)
                ELSE Num(0) ],
        vertexColors |->
          [ k \in slots |->
              IF k \div 6 \in VertexLoop(n)
                THEN ColorWritten(colors, k \div 6, k % 6)
                ELSE Num(0) ],
        index |-> IndexFrom(0, n),
        written |-> { k \in slots : k \div 6 \in VertexLoop(n) } ]

\* The color of the frame callback, scaled by each sample's opacity:
\* color.clone().multiplyScalar(point.opacity).
FrameColors(color, lineWidths) ==
  [ i \in 1..Len(lineWidths) |->
      << Mul(color[1], lineWidths[i]), Mul(color[2], lineWidths[i]),
         Mul(color[3], lineWidths[i]) >> ]

\* The color of a lagrange satellite (#9C27B0) as r, g, b in thousandths.
ColorTried == << 612, 153, 690 >>

\* The arguments of a call, before it is made: a trail of two or more
\* samples, as the frame callback requires.
MeshCalls ==
  UNION { { [built |-> FALSE, points |-> points, lineWidths |-> lineWidths,
             positions |-> << >>, vertexColors |-> << >>, index |-> << >>,
             written |-> {}] :
              points \in [1..n -> PointsTried],
              lineWidths \in [1..n -> WidthsTried] } : n \in 2..MaxPoints }

\* The frame callback builds the geometry of the trail it was given.
Build ==
  /\ ~mesh.built
  /\ Len(mesh.points) > 1
  /\ LET g == generateTrailGeometry(mesh.points,
                                    FrameColors(ColorTried, mesh.lineWidths),
                                    mesh.lineWidths)
     IN  mesh' = [built |-> TRUE, points |-> mesh.points,
                  lineWidths |-> mesh.lineWidths, positions |-> g.positions,
                  vertexColors |-> g.vertexColors, index |-> g.index,
                  written |-> g.written]
  /\ UNCHANGED << now, appVars, effects, satVars, moonVars, frozenAt, probe >>

\* The specification of generateTrailGeometry alone: one call of it for
\* every trail tried.
InitMesh == InitSim /\ mesh \in MeshCalls
NextMesh == Build
SpecMesh == InitMesh /\ [][NextMesh]_vars

\* ================================================================= claims
Samples == 1..Len(trail)

\* Age in ms that the last tick found for sample i.
AgeAtTick(i) == posAt.time - trail[i].timestamp

\* C1 (as claimed): every sample in the trail buffer has an opacity in
\* [0, 1]; a sample younger than one period has opacity 1, not more.
C1_OpacityInUnitRange ==
  \A i \in Samples :
    /\ 0 <= trail[i].opacity.num
    /\ trail[i].opacity.num <= trail[i].opacity.den

\* C2 (as claimed): after a tick at time t with period P the buffer holds no
\* sample recorded at t0 with t >= t0 + 2 P.
C2_AbsentAtTwoPeriods ==
  \A i \in Samples : ~(posAt.time >= trail[i].timestamp + 2000 * orbitPeriodRef)

\* C2 (amended): after a tick at time t with period P the buffer holds no
\* sample recorded at t0 with t > t0 + 2 P; a sample of age exactly 2 P stays.
C2_AbsentPastTwoPeriods ==
  \A i \in Samples : AgeAtTick(i) <= 2000 * orbitPeriodRef

\* A tick has found the oldest of several samples at exactly two periods and
\* kept it.
C2_BoundarySampleKept ==
  /\ Len(trail) >= 2
  /\ AgeAtTick(1) = 2000 * orbitPeriodRef

\* C3 (as claimed): the geometry a frame builds after the type, the orbit
\* or the speed changed holds no sample captured under other settings than
\* the ones the frame draws with.
C3_GeometrySeesNoStaleSample ==
  ribbon.built => ribbon.by \subseteq {ribbon.props}

\* C4 (as claimed): once the deferred reselect callbacks have run the type
\* is not left at 'none': the satellite is present again.
C4_SatelliteBackAfterReset ==
  rafQueue = << >> => orbitType # "none"

\* C5 (as claimed): the first tick after a pause passes calculateNewPosition
\* (and the trail's ages) the time reached at the pause plus at most one
\* tick, however long the pause lasted.
C5_TimeFrozenByPause ==
  [][ (frozenAt # << >> /\ posAt'.valid /\ posAt' # posAt)
        => posAt'.time <= frozenAt[1] + ClockStep ]_vars

\* C6: while paused no tick runs: for a satellite that stays present the
\* position and the call that computed it stay, and the trail stays sample
\* for sample unless the type, the orbit or the speed changed, which empties
\* it; the pause itself leaves both alone.
C6_PauseFrame ==
  [][ /\ (isPaused /\ isPaused' /\ orbitType # "none" /\ orbitType' # "none")
        => /\ position' = position
           /\ posAt' = posAt
           /\ \/ trail' = trail
              \/ trail' = << >> /\ prevOrbitRef # CurrentProps
      /\ (~isPaused /\ isPaused')
        => trail' = trail /\ position' = position ]_vars

\* Paused with samples buffered while the clock and the Moon went on.
C6_PausedWithTrail ==
  /\ isPaused
  /\ effects = "idle"
  /\ Len(trail) >= 1
  /\ posAt.valid
  /\ now > posAt.time
  /\ moonAt.time = now

\* C7 (as claimed): when trail recording is switched back on while paused
\* the buffer is empty: no sample captured before the switch-off is left.
C7_SwitchOnFindsEmptyBuffer ==
  [][ (isPaused /\ ~showTrail /\ showTrail') => trail' = << >> ]_vars

\* C8 (as claimed): the Moon's displayed position and the satellite's
\* displayed position come from the same time, up to one tick, in every
\* state, paused or not.
C8_MoonPhaseConsistent ==
  (posAt.valid /\ moonAt.valid)
    => /\ moonAt.time - posAt.time <= ClockStep
       /\ posAt.time - moonAt.time <= ClockStep

\* C9 (as claimed): whenever the satellite is present the orbit is in the
\* catalog list of the type, and the tab offered is the type.
C9_SelectorValid ==
  orbitType # "none"
    => specificOrbit \in CatalogIds(orbitType) /\ activeTab = orbitType

\* C10 (as claimed): for an id that is not in the catalog list of a
\* recognized type the result is one fixed position, whatever the time and
\* the speed.
C10_UnknownIdFixed ==
  (probe.done /\ probe.type \in OrbitCategory
     /\ probe.orbit \notin CatalogIds(probe.type))
    => probe.result = calculateNewPosition(probe.type, probe.orbit, 0, 10)

\* C10 (amended): an unknown id gives (5,0,0) under lagrange and (4,0,0)
\* under earth for every time and speed, and under moon the Moon's position
\* at that time and speed moved by (1.5,0,0); an unknown type gives (5,0,0).
C10_FallbackPolicy ==
  probe.done =>
    LET unknown == probe.type \in OrbitCategory
                     /\ probe.orbit \notin CatalogIds(probe.type)
        moon == MoonAt(Angle(probe.currentTime, probe.simulationSpeed))
    IN  /\ (unknown /\ probe.type = "lagrange")
             => probe.result = << 5000, 0, 0 >>
        /\ (unknown /\ probe.type = "earth")
             => probe.result = << 4000, 0, 0 >>
        /\ (unknown /\ probe.type = "moon")
             => probe.result = << moon[1] + 1500, 0, moon[3] >>
        /\ probe.type \notin OrbitCategory
             => probe.result = << 5000, 0, 0 >>

\* An unknown id under moon, evaluated after the Moon has moved: the result
\* is no longer the point beside the Moon's start.
C10_MoonFallbackMoves ==
  /\ probe.done
  /\ probe.type = "moon"
  /\ probe.orbit = "nonexistent"
  /\ probe.currentTime > 0
  /\ probe.result # << 11500, 0, 0 >>

\* The trail a call of generateTrailGeometry was given.
SampleCount == Len(mesh.points)
VertexCount == Cardinality(DOMAIN mesh.positions) \div 3
IndexSet == { mesh.index[j] : j \in 1..Len(mesh.index) }

\* Samples a, b, c lie on one line: (b - a) x (c - a) = 0.
Collinear(a, b, c) ==
  LET u == << b[1] - a[1], b[2] - a[2], b[3] - a[3] >>
      v == << c[1] - a[1], c[2] - a[2], c[3] - a[3] >>
  IN  /\ u[2] * v[3] - u[3] * v[2] = 0
      /\ u[3] * v[1] - u[1] * v[3] = 0
      /\ u[1] * v[2] - u[2] * v[1] = 0

\* The call was given 3 collinear samples of opacity 1.0.
ThreeCollinear ==
  /\ SampleCount = 3
  /\ Collinear(mesh.points[1], mesh.points[2], mesh.points[3])
  /\ \A i \in 1..3 : mesh.lineWidths[i] = 1000

\* C11 (as claimed): n >= 2 samples give 2n vertices, 3 collinear samples of
\* opacity 1.0 give 6 vertices and 6 indices, and every index is in
\* [0, 2n-1].
C11_SixIndicesForThree ==
  mesh.built =>
    /\ VertexCount = 2 * SampleCount
    /\ ThreeCollinear => VertexCount = 6 /\ Len(mesh.index) = 6
    /\ IndexSet \subseteq 0..(2 * SampleCount - 1)

\* C11 (amended): n >= 2 samples give 2n vertices and 6(n-1) indices, two
\* triangles for each pair of consecutive samples; 3 collinear samples of
\* opacity 1.0 give 6 vertices and 12 indices; every index is in [0, 2n-1].
C11_OutputSize ==
  mesh.built =>
    /\ VertexCount = 2 * SampleCount
    /\ Len(mesh.index) = 6 * (SampleCount - 1)
    /\ ThreeCollinear => VertexCount = 6 /\ Len(mesh.index) = 12
    /\ IndexSet \subseteq 0..(2 * SampleCount - 1)

\* Built from 3 distinct collinear samples of opacity 1.0: 12 indices, the
\* largest of them 5.
C11_ThreeCollinearBuilt ==
  /\ mesh.built
  /\ ThreeCollinear
  /\ mesh.points[1] # mesh.points[2]
  /\ mesh.points[2] # mesh.points[3]
  /\ Len(mesh.index) = 12
  /\ 5 \in IndexSet

\* Segment i (from 0) has no horizontal direction: its two samples have the
\* same position or differ in the vertical coordinate only.
Degenerate(i) ==
  /\ mesh.points[i + 1][1] = mesh.points[i + 2][1]
  /\ mesh.points[i + 1][3] = mesh.points[i + 2][3]

\* C12: for a segment whose samples have the same position or differ in the
\* vertical coordinate only the builder writes both vertices at the sample's
\* own position (zero width), and no coordinate written is NaN or infinite.
C12_DegenerateSegmentsFinite ==
  mesh.built =>
    /\ \A k \in DOMAIN mesh.positions : mesh.positions[k].finite
    /\ \A i \in 0..(SampleCount - 2) :
         Degenerate(i) =>
           \A j \in 0..5 :
             mesh.positions[i * 6 + j] = Num(mesh.points[i + 1][(j % 3) + 1])

\* Built from a trail with a repeated position followed by a sample straight
\* above it.
C12_DegenerateBuilt ==
  /\ mesh.built
  /\ SampleCount = 3
  /\ mesh.points[1] = mesh.points[2]
  /\ mesh.points[2] # mesh.points[3]
  /\ Degenerate(1)

\* C13 (as claimed): both vertices of every sample, the last one included,
\* are written, so every vertex the index refers to is a written one.
C13_EveryIndexedVertexWritten ==
  mesh.built =>
    /\ \A i \in 0..(SampleCount - 1) :
         \A j \in 0..5 : i * 6 + j \in mesh.written
    /\ \A e \in IndexSet :
         \A c \in 0..2 : e * 3 + c \in mesh.written

\* C14 (as claimed): for every id the catalog lists for a type the position
\* function takes a case of its own, not the default, and the period lookup
\* returns at an explicit entry; the default is for ids not in the list.
C14_CatalogCovered ==
  (probe.done /\ probe.type \in OrbitCategory)
    => /\ probe.orbit \in CatalogIds(probe.type)
            => probe.branch # "default" /\ probe.periodBranch # "default"
       /\ probe.branch = "default"
            => probe.orbit \notin CatalogIds(probe.type)

====
